---------------------------- MODULE Spec2Model ----------------------------
(***************************************************************************)
(* A model of the line painter of gpui2 (crates/gpui2/src/text_system/     *)
(* line.rs): ShapedLine::paint and WrappedLine::paint, which forward to    *)
(* paint_line.  paint_line walks the glyphs of a shaped layout in shaping  *)
(* order and emits paint_glyph / paint_emoji / paint_underline calls into  *)
(* a WindowContext.                                                        *)
(*                                                                         *)
(* Pixels (f32 in the source) are integers here; "/ 2." is \div 2 and      *)
(* "* 0.618" is "* 618 \div 1000".  Option<T> is a sequence of length at   *)
(* most one.  Indices run_ix / glyph_ix are 0-based as in the source.      *)
(*                                                                         *)
(* One step of the model is the stretch of paint_line up to and including  *)
(* its next fallible call; the callee's answer (Ok or Err) is an input of  *)
(* the step.  Every call is recorded in cx.calls with its answer (ret).    *)
(* Fields whose name starts with g_, and the field g of a recorded call,   *)
(* are history (ghost) values that the code does not compute; they only    *)
(* serve the properties.                                                   *)
(*                                                                         *)
(* SpecTwice paints one line twice on a sink that keeps the calls of the   *)
(* first invocation; SpecPair steps two invocations over one line, where   *)
(* cx and st hold one sink and one set of locals per invocation.           *)
(*                                                                         *)
(* The module also models MenuHandle of ui2 (crates/ui2/src/components/    *)
(* context_menu.rs) under SpecMenu: there req is the handle element, st    *)
(* its MenuHandleState and cx the window.                                  *)
(***************************************************************************)
EXTENDS Integers, Sequences, FiniteSets, TLC

VARIABLES
    req,    \* the paint request: the line object, origin and line_height
            \* (SpecMenu: the MenuHandle element)
    cx,     \* the WindowContext: its content mask and the calls it received
            \* (SpecMenu: the frame stage, mouse handlers, mouse position)
    st      \* the locals of the running paint_line
            \* (SpecMenu: the MenuHandleState)

vars == <<req, cx, st>>

-----------------------------------------------------------------------------
(* Bounds of the model and the values of the scalar inputs. *)

MaxGlyphs == 3
OriginX == 5
OriginY == 7
LineHeight == 20
Ascent == 10
Descent == 4
FontSize == 6
FirstX == 1
WrapNarrow == 2
MaxGap == 1
MaxRuns == 3
MaxRunLen == 3
MaxMenus == 2

(* Program constants. *)
GoldenNum == 618
GoldenDen == 1000
PixelsMax == 1000000

-----------------------------------------------------------------------------
(* Option, Point, Bounds. *)

None == <<>>
Some(v) == <<v>>

point(x, y) == [x |-> x, y |-> y]

Min(a, b) == IF a <= b THEN a ELSE b

black == "black"

(* Bounds::intersects: the two rectangles share interior points. *)
Intersects(b, m) ==
    /\ b.origin.x < m.origin.x + m.size.width
    /\ b.origin.x + b.size.width > m.origin.x
    /\ b.origin.y < m.origin.y + m.size.height
    /\ b.origin.y + b.size.height > m.origin.y

(* TextSystem::bounding_box(font_id, font_size).size: the font's largest   *)
(* glyph box.                                                              *)
BoundingBoxSize(font_id, font_size) ==
    [width |-> font_size + font_id, height |-> font_size + 2]

-----------------------------------------------------------------------------
(* The wrappers: what ShapedLine::paint and WrappedLine::paint hand to     *)
(* paint_line.                                                             *)

ShapedLine_paint(line, origin, line_height) ==
    [origin          |-> origin,
     layout          |-> line.layout,
     line_height     |-> line_height,
     decoration_runs |-> line.decoration_runs,
     wrap_width      |-> None,
     wrap_boundaries |-> <<>>]

WrappedLine_paint(line, origin, line_height) ==
    [origin          |-> origin,
     layout          |-> line.layout.unwrapped_layout,
     line_height     |-> line_height,
     decoration_runs |-> line.decoration_runs,
     wrap_width      |-> line.layout.wrap_width,
     wrap_boundaries |-> line.layout.wrap_boundaries]

(* The arguments of the paint_line call that request r makes. *)
Args(r) ==
    IF r.kind = "shaped"
    THEN ShapedLine_paint(r.line, r.origin, r.line_height)
    ELSE WrappedLine_paint(r.line, r.origin, r.line_height)

-----------------------------------------------------------------------------
(* paint_line. *)

Ok == <<"Ok">>
Err(e) == <<"Err", e>>

Ret(ok) == IF ok THEN "Ok" ELSE "Err"

(* The error value a failing call returns: it names the call. *)
ErrorOf(c, calls) == [from |-> c.op, n |-> Len(calls) + 1]

(* An error that is noted while the painting goes on. *)
PropagateLater(s, e) == [s EXCEPT !.result = Err(e)]

(* `?` on a failed call: paint_line returns the error at once. *)
Propagate(s, e) == [s EXCEPT !.pc = "done", !.result = Err(e)]

(* Where the two nested for loops go after glyph (run_ix, glyph_ix) or     *)
(* after a run without glyphs: the next glyph of the run, the next run, or *)
(* the code after the loops.                                               *)
LoopAfterRun(a, s) ==
    [s EXCEPT !.run_ix = s.run_ix + 1,
              !.glyph_ix = 0,
              !.pc = IF s.run_ix + 1 < Len(a.layout.runs) THEN "run" ELSE "end"]

LoopAfterGlyph(a, s) ==
    IF s.glyph_ix + 1 < Len(a.layout.runs[s.run_ix + 1].glyphs)
    THEN [s EXCEPT !.glyph_ix = s.glyph_ix + 1, !.pc = "wrap"]
    ELSE LoopAfterRun(a, s)

(* Lines 93-102: the locals before the loops. *)
paint_line_locals(a) ==
    LET padding_top == (a.line_height - a.layout.ascent - a.layout.descent) \div 2
    IN  [pc                  |-> IF Len(a.layout.runs) > 0 THEN "run" ELSE "end",
         padding_top         |-> padding_top,
         baseline_offset     |-> point(0, padding_top + a.layout.ascent),
         decoration_runs     |-> 1,      \* the iterator: index of its next item
         wraps               |-> 1,      \* the peekable iterator, likewise
         run_end             |-> 0,
         color               |-> black,
         current_underline   |-> None,
         glyph_origin        |-> a.origin,
         prev_glyph_position |-> point(0, 0),
         run_ix              |-> 0,
         glyph_ix            |-> 0,
         max_glyph_size      |-> None,
         result              |-> None,
         g_row               |-> 0,      \* row advances made so far
         g_opened            |-> 0]      \* underlines opened so far

(* Locals that keep their two iterators from the invocation before. *)
ReenterKeepsIterators(a, s) ==
    [paint_line_locals(a) EXCEPT !.decoration_runs = s.decoration_runs,
                                 !.wraps = s.wraps]

(* Lines 84-102: every local is a `let` of the function body, so an        *)
(* invocation starts from fresh locals whatever the locals s of an earlier *)
(* invocation were.                                                        *)
Reenter(a, s) == paint_line_locals(a)

(* Lines 103-106: the head of the outer loop, the metrics lookup of a run. *)
paint_line_run(a, c, s, ok) ==
    LET run  == a.layout.runs[s.run_ix + 1]
        call == [op |-> "bounding_box", font_id |-> run.font_id,
                 font_size |-> a.layout.font_size, ret |-> Ret(ok)]
        c1   == [c EXCEPT !.calls = Append(@, call)]
    IN  IF ~ok
        THEN [cx |-> c1, st |-> Propagate(s, ErrorOf(call, c.calls))]
        ELSE LET s1 == [s EXCEPT !.max_glyph_size =
                           Some(BoundingBoxSize(run.font_id, a.layout.font_size))]
             IN  [cx |-> c1,
                  st |-> IF Len(run.glyphs) > 0
                         THEN [s1 EXCEPT !.glyph_ix = 0, !.pc = "wrap"]
                         ELSE LoopAfterRun(a, s1)]

(* A paint_underline whose width is measured from its end to its start. *)
UnderlineCallReversed(u, end_x, s, ok) ==
    [op     |-> "paint_underline",
     origin |-> u.origin,
     width  |-> u.origin.x - end_x,
     style  |-> u.style,
     ret    |-> Ret(ok),
     g      |-> [row_open |-> u.g_row, row_end |-> s.g_row,
                 at |-> <<s.run_ix, s.glyph_ix>>, pc |-> s.pc]]

(* The paint_underline call of an underline u = [origin, style, g_row]     *)
(* that ends at end_x.                                                     *)
UnderlineCall(u, end_x, s, ok) ==
    [op     |-> "paint_underline",
     origin |-> u.origin,
     width  |-> end_x - u.origin.x,
     style  |-> u.style,
     ret    |-> Ret(ok),
     g      |-> [row_open |-> u.g_row, row_end |-> s.g_row,
                 at |-> <<s.run_ix, s.glyph_ix>>, pc |-> s.pc]]

(* A take that forgets to clear the option. *)
TakeKeeps(opt) == opt

(* Option::take leaves None behind (lines 113, 131, 152, 191). *)
Take(opt) == None

(* A cursor that adds the glyph's whole offset at every glyph. *)
AdvanceXAbsolute(s, glyph) == s.glyph_origin.x + glyph.position.x

(* Line 109: the cursor moves by the glyph's offset from its predecessor. *)
AdvanceX(s, glyph) ==
    s.glyph_origin.x + (glyph.position.x - s.prev_glyph_position.x)

(* A wrap that returns to the left edge without moving down. *)
CursorAfterWrapSameRow(a, s) == point(a.origin.x, s.glyph_origin.y)

(* Lines 121-122: the cursor at the start of the next visual row. *)
CursorAfterWrap(a, s) ==
    point(a.origin.x, s.glyph_origin.y + a.line_height)

(* Lines 109-124: the cursor advance and the wrap boundary. *)
paint_line_wrap(a, c, s, ok) ==
    LET glyph == a.layout.runs[s.run_ix + 1].glyphs[s.glyph_ix + 1]
        x1    == AdvanceX(s, glyph)
        peek  == IF s.wraps <= Len(a.wrap_boundaries)
                 THEN Some(a.wrap_boundaries[s.wraps]) ELSE None
        here  == Some([run_ix |-> s.run_ix, glyph_ix |-> s.glyph_ix])
    IN  IF peek = here
        THEN LET taken == [s EXCEPT !.wraps = s.wraps + 1,
                                    !.glyph_origin.x = x1,
                                    !.current_underline = Take(@)]
                 moved == [taken EXCEPT
                             !.glyph_origin = CursorAfterWrap(a, s),
                             !.prev_glyph_position = glyph.position,
                             !.g_row = s.g_row + 1,
                             !.pc = "deco"]
             IN  IF s.current_underline # None
                 THEN LET call == UnderlineCall(s.current_underline[1], x1, s, ok)
                          c1   == [c EXCEPT !.calls = Append(@, call)]
                      IN  IF ok
                          THEN [cx |-> c1, st |-> moved]
                          ELSE [cx |-> c1,
                                st |-> Propagate(taken, ErrorOf(call, c.calls))]
                 ELSE [cx |-> c, st |-> moved]
        ELSE [cx |-> c,
              st |-> [s EXCEPT !.glyph_origin.x = x1,
                               !.prev_glyph_position = glyph.position,
                               !.pc = "deco"]]

(* An underline that always takes the text colour of its run. *)
NewUnderlineInTextColour(a, s, style_run) ==
    [origin |-> point(s.glyph_origin.x,
                      a.origin.y + s.baseline_offset.y
                        + (a.layout.descent * GoldenNum) \div GoldenDen),
     style  |-> [color     |-> Some(style_run.color),
                 thickness |-> style_run.underline[1].thickness,
                 wavy      |-> style_run.underline[1].wavy],
     g_row  |-> s.g_row]

(* An underline anchored where the glyph would sit had the row not been    *)
(* wrapped: the run transition taken before the wrap.                      *)
NewUnderlineBeforeWrap(a, s, style_run) ==
    [origin |-> point(a.origin.x + s.prev_glyph_position.x,
                      a.origin.y + s.baseline_offset.y
                        + (a.layout.descent * GoldenNum) \div GoldenDen),
     style  |-> [color     |-> Some(IF style_run.underline[1].color # None
                                    THEN style_run.underline[1].color[1]
                                    ELSE style_run.color),
                 thickness |-> style_run.underline[1].thickness,
                 wavy      |-> style_run.underline[1].wavy],
     g_row  |-> s.g_row]

(* Lines 134-146: the underline that decoration run style_run opens at the *)
(* cursor (current_underline.get_or_insert).                               *)
NewUnderline(a, s, style_run) ==
    LET run_underline == style_run.underline[1]
    IN  [origin |-> point(s.glyph_origin.x,
                          a.origin.y + s.baseline_offset.y
                            + (a.layout.descent * GoldenNum) \div GoldenDen),
         style  |-> [color     |-> Some(IF run_underline.color # None
                                        THEN run_underline.color[1]
                                        ELSE style_run.color),
                     thickness |-> run_underline.thickness,
                     wavy      |-> run_underline.wavy],
         g_row  |-> s.g_row]

(* Lines 129-133: whether the open underline ends at the new run. *)
StyleChanged(style_run, underline_style) ==
    style_run.underline # Some(underline_style)

(* Lines 126-162: the decoration-run transition and the underline it ends. *)
paint_line_deco(a, c, s, ok) ==
    LET glyph == a.layout.runs[s.run_ix + 1].glyphs[s.glyph_ix + 1]
        more  == s.decoration_runs <= Len(a.decoration_runs)
        style_run == a.decoration_runs[s.decoration_runs]
        finished_underline ==
            IF glyph.index >= s.run_end
            THEN IF more
                 THEN IF /\ s.current_underline # None
                         /\ StyleChanged(style_run, s.current_underline[1].style)
                      THEN s.current_underline ELSE None
                 ELSE s.current_underline
            ELSE None
        kept  == IF finished_underline # None
                 THEN Take(s.current_underline) ELSE s.current_underline
        s1    == IF glyph.index >= s.run_end
                 THEN IF more
                      THEN [s EXCEPT
                              !.decoration_runs = s.decoration_runs + 1,
                              !.current_underline =
                                  IF style_run.underline # None /\ kept = None
                                  THEN Some(NewUnderline(a, s, style_run))
                                  ELSE kept,
                              !.g_opened =
                                  IF style_run.underline # None /\ kept = None
                                  THEN s.g_opened + 1 ELSE s.g_opened,
                              !.run_end = s.run_end + style_run.len,
                              !.color = style_run.color]
                      ELSE [s EXCEPT !.run_end = a.layout.len,
                                     !.current_underline = Take(@)]
                 ELSE s
    IN  IF finished_underline # None
        THEN LET call == UnderlineCall(finished_underline[1], s.glyph_origin.x, s, ok)
                 c1   == [c EXCEPT !.calls = Append(@, call)]
             IN  IF ok
                 THEN [cx |-> c1, st |-> [s1 EXCEPT !.pc = "glyph"]]
                 ELSE [cx |-> c1, st |-> Propagate(s1, ErrorOf(call, c.calls))]
        ELSE [cx |-> c, st |-> [s1 EXCEPT !.pc = "glyph"]]

(* No culling at all. *)
GlyphAlwaysVisible(c, s) == TRUE

(* Lines 164-170: the cull test of a glyph against the content mask. *)
GlyphVisible(c, s) ==
    Intersects([origin |-> s.glyph_origin, size |-> s.max_glyph_size[1]],
               c.content_mask)

(* Every glyph, emoji or not, painted as a coloured glyph. *)
GlyphCallIgnoringEmoji(a, s, glyph, ok) ==
    [op |-> "paint_glyph",
     origin |-> point(s.glyph_origin.x + s.baseline_offset.x,
                      s.glyph_origin.y + s.baseline_offset.y),
     font_id |-> a.layout.runs[s.run_ix + 1].font_id,
     glyph_id |-> glyph.id, font_size |-> a.layout.font_size,
     color |-> s.color, ret |-> Ret(ok),
     g |-> [at |-> <<s.run_ix, s.glyph_ix>>, row |-> s.g_row]]

(* Lines 171-186: the glyph primitive of a visible glyph. *)
GlyphCall(a, s, glyph, ok) ==
    LET run == a.layout.runs[s.run_ix + 1]
        at  == point(s.glyph_origin.x + s.baseline_offset.x,
                     s.glyph_origin.y + s.baseline_offset.y)
        g   == [at |-> <<s.run_ix, s.glyph_ix>>, row |-> s.g_row]
    IN  IF glyph.is_emoji
        THEN [op |-> "paint_emoji", origin |-> at, font_id |-> run.font_id,
              glyph_id |-> glyph.id, font_size |-> a.layout.font_size,
              ret |-> Ret(ok), g |-> g]
        ELSE [op |-> "paint_glyph", origin |-> at, font_id |-> run.font_id,
              glyph_id |-> glyph.id, font_size |-> a.layout.font_size,
              color |-> s.color, ret |-> Ret(ok), g |-> g]

(* A culled glyph that also ends the open underline without emitting it. *)
AfterCulledGlyphDropsUnderline(a, s) ==
    LoopAfterGlyph(a, [s EXCEPT !.current_underline = None])

(* Lines 169-188: the `if` that culls has no else; a culled glyph leaves   *)
(* every local as it is.                                                   *)
AfterCulledGlyph(a, s) == LoopAfterGlyph(a, s)

(* Lines 164-188: the content-mask query (which cannot fail), culling and  *)
(* the glyph primitive, then the loop steps.                               *)
paint_line_glyph(a, c, s, ok) ==
    LET glyph == a.layout.runs[s.run_ix + 1].glyphs[s.glyph_ix + 1]
        c0    == [c EXCEPT !.calls = Append(@, [op |-> "content_mask", ret |-> "Ok"])]
    IN  IF GlyphVisible(c, s)
        THEN LET call == GlyphCall(a, s, glyph, ok)
                 c1   == [c0 EXCEPT !.calls = Append(@, call)]
             IN  IF ok
                 THEN [cx |-> c1, st |-> LoopAfterGlyph(a, s)]
                 ELSE [cx |-> c1, st |-> Propagate(s, ErrorOf(call, c0.calls))]
        ELSE [cx |-> c0, st |-> AfterCulledGlyph(a, s)]

(* A line end that ignores the wrap width. *)
LineEndXUnwrapped(a) == a.origin.x + a.layout.width

(* Line 192: where an underline that is open after the last glyph ends. *)
LineEndX(a) ==
    a.origin.x + Min(IF a.wrap_width # None THEN a.wrap_width[1] ELSE PixelsMax,
                     a.layout.width)

(* Lines 191-200: the underline still open after the loops, and Ok(()). *)
paint_line_end(a, c, s, ok) ==
    LET finished == [s EXCEPT !.current_underline = Take(@),
                              !.pc = "done", !.result = Ok]
    IN  IF s.current_underline # None
        THEN LET call == UnderlineCall(s.current_underline[1], LineEndX(a), s, ok)
                 c1   == [c EXCEPT !.calls = Append(@, call)]
             IN  IF ok
                 THEN [cx |-> c1, st |-> finished]
                 ELSE [cx |-> c1,
                       st |-> Propagate([s EXCEPT !.current_underline = Take(@)],
                                        ErrorOf(call, c.calls))]
        ELSE [cx |-> c, st |-> finished]

(* One step of paint_line from state (c, s); ok is the answer of the call  *)
(* the step makes, if it makes one.                                        *)
paint_line_step(a, c, s, ok) ==
    CASE s.pc = "run"   -> paint_line_run(a, c, s, ok)
      [] s.pc = "wrap"  -> paint_line_wrap(a, c, s, ok)
      [] s.pc = "deco"  -> paint_line_deco(a, c, s, ok)
      [] s.pc = "glyph" -> paint_line_glyph(a, c, s, ok)
      [] s.pc = "end"   -> paint_line_end(a, c, s, ok)
      [] OTHER          -> [cx |-> c, st |-> s]

(* paint_line run to its end against a context whose calls all succeed. *)
RECURSIVE paint_line(_, _, _)
paint_line(a, c, s) ==
    IF s.pc = "done" THEN [cx |-> c, st |-> s]
    ELSE LET r == paint_line_step(a, c, s, TRUE)
         IN  paint_line(a, r.cx, r.st)

-----------------------------------------------------------------------------
(* The inputs: layouts as the shaper delivers them, decoration runs, wrap  *)
(* boundaries, content masks.                                              *)

RECURSIVE SumTo(_, _)
SumTo(f, k) == IF k = 0 THEN 0 ELSE f[k] + SumTo(f, k - 1)

(* A LineLayout of n glyphs.  The first glyph is at x0 and glyph k > 1 is  *)
(* adv[k] right of its predecessor; glyph k covers 1 + gap[k] characters;  *)
(* emo[k] is its is_emoji flag; the first split glyphs form a run of font  *)
(* 1 and the others a run of font 2.                                       *)
MkLayout(n, x0, adv, gap, emo, split) ==
    LET X(k) == x0 + SumTo(adv, k) - (IF k > 0 THEN adv[1] ELSE 0)
        glyph(k) == [id        |-> k,
                     index     |-> (k - 1) + SumTo(gap, k - 1),
                     position  |-> point(X(k), 0),
                     is_emoji  |-> emo[k]]
        all == [k \in 1..n |-> glyph(k)]
    IN  [runs      |-> IF n = 0 THEN <<>>
                       ELSE IF split >= n
                            THEN <<[font_id |-> 1, glyphs |-> all]>>
                            ELSE <<[font_id |-> 1, glyphs |-> SubSeq(all, 1, split)],
                                   [font_id |-> 2, glyphs |-> SubSeq(all, split + 1, n)]>>,
         len       |-> n + SumTo(gap, n),
         width     |-> IF n = 0 THEN 0 ELSE X(n) + 2,
         ascent    |-> Ascent,
         descent   |-> Descent,
         font_size |-> FontSize]

(* The WrapBoundary of the k-th glyph of a layout split as above. *)
BoundaryOf(k, n, split) ==
    IF split >= n \/ k <= split
    THEN [run_ix |-> 0, glyph_ix |-> k - 1]
    ELSE [run_ix |-> 1, glyph_ix |-> k - split - 1]

(* The ascending sequence of the boundaries of the glyphs in W. *)
RECURSIVE BoundariesOf(_, _, _)
BoundariesOf(W, n, split) ==
    IF W = {} THEN <<>>
    ELSE LET k == CHOOSE m \in W : \A j \in W : m <= j
         IN  <<BoundaryOf(k, n, split)>> \o BoundariesOf(W \ {k}, n, split)

(* The sequences of run lengths, each at least 1, that sum to total. *)
Compositions(total) ==
    UNION { { ls \in [1..k -> 1..total] : SumTo(ls, k) = total } : k \in 0..total }

(* The decoration-run sequences over the styles in Styles whose run        *)
(* lengths, each at least 1, sum to exactly total.                         *)
DecorationRuns(total, Styles) ==
    UNION { { [i \in 1..Len(ls) |-> [len       |-> ls[i],
                                     color     |-> ys[i].color,
                                     underline |-> ys[i].underline]] :
                ys \in [1..Len(ls) -> Styles] } :
            ls \in Compositions(total) }

(* Underline styles as a caller sets them: without and with a colour of    *)
(* their own.                                                              *)
PlainUnderline == [color |-> None, thickness |-> 1, wavy |-> FALSE]
GreenUnderline == [color |-> Some("green"), thickness |-> 2, wavy |-> TRUE]

AllStyles ==
    { [color |-> col, underline |-> ul] :
        col \in {"red", "blue"},
        ul \in {None, Some(PlainUnderline), Some(GreenUnderline)} }

RedStyles ==
    { [color |-> "red", underline |-> ul] :
        ul \in {None, Some(PlainUnderline), Some(GreenUnderline)} }

FewStyles ==
    { [color |-> "red", underline |-> None],
      [color |-> "blue", underline |-> Some(GreenUnderline)] }

(* Content masks: everything, nothing, the first row only, the leftmost    *)
(* columns only.                                                           *)
MaskAll  == [origin |-> point(0, 0), size |-> [width |-> 1000, height |-> 1000]]
MaskNone == [origin |-> point(500, 500), size |-> [width |-> 10, height |-> 10]]
MaskRow0 == [origin |-> point(0, 0),
             size |-> [width |-> 1000, height |-> OriginY + LineHeight]]
MaskLeft == [origin |-> point(0, 0),
             size |-> [width |-> OriginX + 3, height |-> 1000]]

Steady(n) == [k \in 1..n |-> k]          \* advances 1, 2, 3, ...
NoGaps(n) == [k \in 1..n |-> 0]
NoEmoji(n) == [k \in 1..n |-> FALSE]
Splits(n) == {n} \cup (IF n >= 2 THEN {1} ELSE {})

Request(kind, line) ==
    [kind |-> kind, line |-> line,
     origin |-> point(OriginX, OriginY), line_height |-> LineHeight]

(* ShapedLine objects of n glyphs: unwrapped lines under every             *)
(* decoration-run sequence that covers the first t characters.             *)
ShapedLines(n, t) ==
    { Request("shaped", [layout |-> MkLayout(n, x0, Steady(n), NoGaps(n), NoEmoji(n), split),
                         decoration_runs |-> d]) :
        x0 \in {0, FirstX}, split \in Splits(n),
        d \in DecorationRuns(t, AllStyles) }

(* WrappedLine objects of n glyphs: every ascending set of wrap            *)
(* boundaries (a row starts at any glyph but the first), with and without  *)
(* a wrap width, under every decoration-run sequence that covers the line. *)
WrappedLines(n) ==
    { Request("wrapped",
              [layout |-> [unwrapped_layout |->
                               MkLayout(n, x0, Steady(n), NoGaps(n), NoEmoji(n), split),
                           wrap_width       |-> ww,
                           wrap_boundaries  |-> BoundariesOf(W, n, split)],
               decoration_runs |-> d]) :
        x0 \in {0, FirstX}, split \in Splits(n),
        ww \in {None, Some(WrapNarrow)},
        W \in SUBSET (2..n),
        d \in DecorationRuns(n, RedStyles) }

(* WrappedLine objects of n glyphs with emoji among them, for painting     *)
(* under the four content masks.                                           *)
MixedLines(n) ==
    { Request("wrapped",
              [layout |-> [unwrapped_layout |->
                               MkLayout(n, FirstX, Steady(n), NoGaps(n), emo, split),
                           wrap_width       |-> Some(WrapNarrow),
                           wrap_boundaries  |-> BoundariesOf(W, n, split)],
               decoration_runs |-> d]) :
        emo \in [1..n -> BOOLEAN], split \in Splits(n),
        W \in SUBSET (2..n),
        d \in { ds \in DecorationRuns(n, FewStyles) : Len(ds) <= 2 } }

Masks == {MaskAll, MaskNone, MaskRow0, MaskLeft}

(* The decoration-run sequences of at most MaxRuns runs, each of at most   *)
(* MaxRunLen characters, that sum to exactly total.                        *)
ShortDecorationRuns(total, Styles) ==
    { d \in UNION { [1..k -> { [len |-> l, color |-> y.color, underline |-> y.underline] :
                                 l \in 1..MaxRunLen, y \in Styles }] :
                    k \in 0..MaxRuns } :
        SumTo([i \in DOMAIN d |-> d[i].len], Len(d)) = total }

PlainStyles ==
    { [color |-> col, underline |-> None] : col \in {"red", "blue"} }

(* ShapedLine objects of n glyphs of which some stand for several          *)
(* characters (a ligature, a character of several bytes): glyph k covers   *)
(* 1 + gap[k] characters, and the decoration runs cover the line.          *)
SparseLines(n, gap) ==
    LET layout == MkLayout(n, 0, Steady(n), gap, NoEmoji(n), n)
    IN  { Request("shaped", [layout |-> layout, decoration_runs |-> d]) :
            d \in ShortDecorationRuns(layout.len, PlainStyles) }

-----------------------------------------------------------------------------
(* The state machine. *)

Start(requests, masks) ==
    /\ req \in requests
    /\ cx \in { [content_mask |-> m, calls |-> <<>>] : m \in masks }
    /\ st = paint_line_locals(Args(req))

PaintRun ==
    /\ st.pc = "run"
    /\ \E ok \in BOOLEAN :
          LET r == paint_line_run(Args(req), cx, st, ok)
          IN  cx' = r.cx /\ st' = r.st
    /\ UNCHANGED req

PaintWrap ==
    /\ st.pc = "wrap"
    /\ \E ok \in BOOLEAN :
          LET r == paint_line_wrap(Args(req), cx, st, ok)
          IN  cx' = r.cx /\ st' = r.st
    /\ UNCHANGED req

PaintDeco ==
    /\ st.pc = "deco"
    /\ \E ok \in BOOLEAN :
          LET r == paint_line_deco(Args(req), cx, st, ok)
          IN  cx' = r.cx /\ st' = r.st
    /\ UNCHANGED req

PaintGlyph ==
    /\ st.pc = "glyph"
    /\ \E ok \in BOOLEAN :
          LET r == paint_line_glyph(Args(req), cx, st, ok)
          IN  cx' = r.cx /\ st' = r.st
    /\ UNCHANGED req

PaintEnd ==
    /\ st.pc = "end"
    /\ \E ok \in BOOLEAN :
          LET r == paint_line_end(Args(req), cx, st, ok)
          IN  cx' = r.cx /\ st' = r.st
    /\ UNCHANGED req

Next == PaintRun \/ PaintWrap \/ PaintDeco \/ PaintGlyph \/ PaintEnd

Init == \E n \in 0..MaxGlyphs : \E t \in 0..n : Start(ShapedLines(n, t), {MaskAll})
Spec == Init /\ [][Next]_vars

InitWrapped == \E n \in 0..MaxGlyphs : Start(WrappedLines(n), {MaskAll})
SpecWrapped == InitWrapped /\ [][Next]_vars

InitMixed == \E n \in 0..MaxGlyphs : Start(MixedLines(n), Masks)
SpecMixed == InitMixed /\ [][Next]_vars

InitSparse ==
    \E n \in 0..MaxGlyphs : \E gap \in [1..n -> 0..MaxGap] :
        Start(SparseLines(n, gap), {MaskAll})
SpecSparse == InitSparse /\ [][Next]_vars

(* WrappedLine objects of n glyphs in one run, wrapped at any glyphs but   *)
(* the first, for painting more than once.                                 *)
PlainWrappedLines(n) ==
    { Request("wrapped",
              [layout |-> [unwrapped_layout |->
                               MkLayout(n, FirstX, Steady(n), NoGaps(n), NoEmoji(n), n),
                           wrap_width       |-> Some(WrapNarrow),
                           wrap_boundaries  |-> BoundariesOf(W, n, n)],
               decoration_runs |-> d]) :
        W \in SUBSET (2..n),
        d \in { ds \in DecorationRuns(n, FewStyles) : Len(ds) <= 2 } }

(* A sink that records: besides the calls of the invocation under way it   *)
(* keeps the calls and the result of every invocation that has returned.   *)
RecordingSink(m) == [content_mask |-> m, calls |-> <<>>, recorded |-> <<>>]

(* The caller invokes paint a second time, with the same line, origin and  *)
(* line height, on the same sink.                                          *)
PaintAgain ==
    /\ st.pc = "done"
    /\ cx.recorded = <<>>
    /\ cx' = [cx EXCEPT !.recorded = Append(@, [calls |-> cx.calls,
                                                result |-> st.result]),
                        !.calls = <<>>]
    /\ st' = Reenter(Args(req), st)
    /\ UNCHANGED req

NextTwice == PaintRun \/ PaintWrap \/ PaintDeco \/ PaintGlyph \/ PaintEnd \/ PaintAgain

InitTwice ==
    \E n \in 0..MaxGlyphs :
        /\ req \in PlainWrappedLines(n)
        /\ cx \in { RecordingSink(m) : m \in {MaskAll, MaskRow0} }
        /\ st = paint_line_locals(Args(req))
SpecTwice == InitTwice /\ [][NextTwice]_vars

(* Locals shared by the invocations: a write of one is a write of all. *)
SharedLocals(f, p, v) == [q \in DOMAIN f |-> v]

(* Lines 93-102: the locals of invocation p are its own; f holds the       *)
(* locals of every invocation.                                             *)
OwnLocals(f, p, v) == [f EXCEPT ![p] = v]

(* Line 91: invocation p calls the sink it was given as `cx`; f holds the  *)
(* sink of every invocation.                                               *)
OwnSink(f, p, v) == [f EXCEPT ![p] = v]

(* One step of the first of two invocations that paint the same line,      *)
(* each on its own sink: the layout, the decoration runs and the wrap      *)
(* boundaries are borrowed with `&` and only read.                         *)
FirstPaintStep ==
    /\ st[1].pc # "done"
    /\ \E ok \in BOOLEAN :
          LET r == paint_line_step(Args(req), cx[1], st[1], ok)
          IN  /\ cx' = OwnSink(cx, 1, r.cx)
              /\ st' = OwnLocals(st, 1, r.st)
    /\ UNCHANGED req

(* One step of the second. *)
SecondPaintStep ==
    /\ st[2].pc # "done"
    /\ \E ok \in BOOLEAN :
          LET r == paint_line_step(Args(req), cx[2], st[2], ok)
          IN  /\ cx' = OwnSink(cx, 2, r.cx)
              /\ st' = OwnLocals(st, 2, r.st)
    /\ UNCHANGED req

NextPair == FirstPaintStep \/ SecondPaintStep

InitPair ==
    \E n \in 0..MaxGlyphs :
        /\ req \in PlainWrappedLines(n)
        /\ cx = <<[content_mask |-> MaskAll, calls |-> <<>>],
                  [content_mask |-> MaskRow0, calls |-> <<>>]>>
        /\ st = <<paint_line_locals(Args(req)), paint_line_locals(Args(req))>>
SpecPair == InitPair /\ [][NextPair]_vars

-----------------------------------------------------------------------------
(* MenuHandle (context_menu.rs).  Here req is the MenuHandle element as    *)
(* its builder methods configured it, st its MenuHandleState, kept from    *)
(* frame to frame, and cx the window: where a frame stands, the layout     *)
(* bounds, the mouse handlers of the frame, the mouse position.            *)

AnchorCorner == {"TopLeft", "TopRight", "BottomLeft", "BottomRight"}

(* AnchorCorner::corner: the named corner of bounds b. *)
Corner(corner, b) ==
    point(IF corner \in {"TopRight", "BottomRight"}
          THEN b.origin.x + b.size.width ELSE b.origin.x,
          IF corner \in {"BottomLeft", "BottomRight"}
          THEN b.origin.y + b.size.height ELSE b.origin.y)

(* Bounds::contains_point. *)
ContainsPoint(b, p) ==
    /\ b.origin.x <= p.x /\ p.x < b.origin.x + b.size.width
    /\ b.origin.y <= p.y /\ p.y < b.origin.y + b.size.height

(* overlay(): an overlay anchored by its top left corner at the origin. *)
overlay == [anchor_corner |-> "TopLeft", anchor_position |-> point(0, 0),
            snap_to_window |-> FALSE, child |-> None]

(* Lines 168-176 and 139-165: menu_handle() and what id, child, menu,      *)
(* anchor and attach set.                                                  *)
menu_handle ==
    [kind |-> "menu_handle", id |-> None, child_builder |-> None,
     menu_builder |-> None, anchor |-> None, attach |-> None]

MenuHandles ==
    { [menu_handle EXCEPT !.id = Some("handle"), !.child_builder = cb,
                          !.menu_builder = mb, !.anchor = an, !.attach = at] :
        cb \in {None, Some("child")}, mb \in {None, Some("menu")},
        an \in {None} \cup { Some(k) : k \in AnchorCorner },
        at \in {None} \cup { Some(k) : k \in AnchorCorner } }

(* Where the layout engine puts the handle and its child. *)
HandleBounds == [origin |-> point(10, 20), size |-> [width |-> 8, height |-> 6]]
ChildBounds  == [origin |-> point(11, 21), size |-> [width |-> 4, height |-> 3]]

(* The mouse-down events: either button, inside the handle and outside     *)
(* it, in both dispatch phases.                                            *)
MouseDownEvents ==
    { [button |-> b, position |-> p, phase |-> ph] :
        b \in {"Left", "Right"},
        p \in {point(12, 22), point(17, 25), point(40, 40)},
        ph \in {"Capture", "Bubble"} }

(* Lines 198-202: the element state of a handle that has none yet. *)
MenuHandleState_default ==
    [menu |-> None, position |-> point(0, 0), child_layout_id |-> None,
     child_element |-> None, menu_element |-> None]

(* Lines 192-242: MenuHandle::layout. *)
MenuHandle_layout(h, state, c) ==
    LET menu_element ==
            IF state.menu # None
            THEN Some([overlay EXCEPT
                         !.snap_to_window = TRUE,
                         !.anchor_corner = IF h.anchor # None THEN h.anchor[1] ELSE @,
                         !.anchor_position = state.position,
                         !.child = state.menu])
            ELSE None
        child_element ==
            IF h.child_builder # None
            THEN Some([child |-> h.child_builder[1], is_open |-> state.menu # None])
            ELSE None
    IN  [st |-> [menu |-> state.menu, position |-> state.position,
                 child_element |-> child_element,
                 child_layout_id |-> IF child_element # None
                                     THEN Some("child") ELSE None,
                 menu_element |-> menu_element],
         cx |-> [c EXCEPT !.stage = "paint", !.mouse_handlers = <<>>,
                          !.notified = FALSE, !.painted = <<>>]]

(* A paint that never takes the early return of a laid-out menu. *)
MenuIsNeverLaidOut(state) == FALSE

(* Lines 255-258: the frame has a menu element; paint paints it and        *)
(* returns before it registers a mouse handler.                            *)
MenuIsLaidOut(state) == state.menu_element # None

(* Lines 244-298: MenuHandle::paint.  The mouse handler it registers is    *)
(* the closure's captures.                                                 *)
MenuHandle_paint(h, bounds, state, c) ==
    LET c1 == IF state.child_element # None
              THEN [c EXCEPT !.painted = Append(@, state.child_element[1])] ELSE c
    IN  IF MenuIsLaidOut(state)
        THEN [c1 EXCEPT !.painted = Append(@, state.menu_element[1]), !.stage = "idle"]
        ELSE IF h.menu_builder = None
        THEN [c1 EXCEPT !.stage = "idle"]
        ELSE [c1 EXCEPT !.stage = "idle",
                        !.mouse_handlers =
                            Append(@, [builder |-> h.menu_builder[1],
                                       bounds |-> bounds,
                                       attach |-> h.attach,
                                       child_layout_id |-> state.child_layout_id])]

(* A position taken from the corner named by anchor. *)
MenuPositionByAnchor(h, handler, c) ==
    IF h.anchor # None /\ handler.child_layout_id # None
    THEN Corner(h.anchor[1], c.layout_bounds[handler.child_layout_id[1]])
    ELSE c.mouse_position

(* Lines 288-294: where the menu that opens is put. *)
MenuPosition(h, handler, c) ==
    IF handler.attach # None /\ handler.child_layout_id # None
    THEN Corner(handler.attach[1], c.layout_bounds[handler.child_layout_id[1]])
    ELSE c.mouse_position

(* Lines 268-297: the mouse-down handler. *)
OnMouseDown(h, handler, event, state, c) ==
    IF /\ event.phase = "Bubble"
       /\ event.button = "Right"
       /\ ContainsPoint(handler.bounds, event.position)
    THEN LET new_menu == [view |-> handler.builder, n |-> c.views + 1]
         IN  [st |-> [state EXCEPT !.menu = Some(new_menu),
                                   !.position = MenuPosition(h, handler, c)],
              cx |-> [c EXCEPT !.propagate = FALSE, !.default_prevented = TRUE,
                               !.views = c.views + 1,
                               !.subscribed = new_menu.n,
                               !.focus = Some(new_menu.n),
                               !.notified = TRUE]]
    ELSE [st |-> state, cx |-> c]

(* A frame lays the handle out: the first frame, and a frame after notify. *)
Layout ==
    /\ cx.stage = "layout" \/ (cx.stage = "idle" /\ cx.notified)
    /\ LET r == MenuHandle_layout(req, st, cx)
       IN  st' = r.st /\ cx' = r.cx
    /\ UNCHANGED req

Paint ==
    /\ cx.stage = "paint"
    /\ cx' = MenuHandle_paint(req, cx.layout_bounds.handle, st, cx)
    /\ UNCHANGED <<req, st>>

(* The window dispatches a mouse-down event to the handlers of the frame;  *)
(* the mouse position is the event's.                                      *)
MouseDown ==
    /\ cx.stage = "idle"
    /\ cx.views < MaxMenus
    /\ \E event \in MouseDownEvents :
          LET c0 == [cx EXCEPT !.mouse_position = event.position,
                               !.propagate = TRUE, !.default_prevented = FALSE,
                               !.g_event = Some(event)]
          IN  IF cx.mouse_handlers # <<>>
              THEN LET r == OnMouseDown(req, cx.mouse_handlers[1], event, st, c0)
                   IN  st' = r.st /\ cx' = r.cx
              ELSE st' = st /\ cx' = c0
    /\ UNCHANGED req

(* Lines 278-283: the open menu emits Dismiss. *)
MenuDismissed ==
    /\ cx.stage = "idle"
    /\ st.menu # None
    /\ cx.subscribed = st.menu[1].n
    /\ st' = [st EXCEPT !.menu = None]
    /\ cx' = [cx EXCEPT !.notified = TRUE]
    /\ UNCHANGED req

NextMenu == Layout \/ Paint \/ MouseDown \/ MenuDismissed

InitMenu ==
    /\ req \in MenuHandles
    /\ st = MenuHandleState_default
    /\ cx = [stage |-> "layout", mouse_handlers |-> <<>>, painted |-> <<>>,
             layout_bounds |-> [handle |-> HandleBounds, child |-> ChildBounds],
             mouse_position |-> point(0, 0), propagate |-> TRUE,
             default_prevented |-> FALSE, views |-> 0, subscribed |-> 0,
             focus |-> None, notified |-> FALSE,
             g_event |-> None]       \* the last event dispatched (history)
SpecMenu == InitMenu /\ [][NextMenu]_vars

-----------------------------------------------------------------------------
(* Vocabulary of the properties. *)

A == Args(req)

Done == st.pc = "done"
Succeeded == Done /\ st.result = Ok
Failed == Done /\ st.result # Ok

CallsOf(calls, ops) == SelectSeq(calls, LAMBDA c : c.op \in ops)
Underlines == CallsOf(cx.calls, {"paint_underline"})
GlyphCalls == CallsOf(cx.calls, {"paint_glyph", "paint_emoji"})

RECURSIVE SumLens(_)
SumLens(d) == IF d = <<>> THEN 0 ELSE d[1].len + SumLens(Tail(d))

CoversLine == SumLens(A.decoration_runs) = A.layout.len

(* The glyphs of a layout in shaping order, each with its place. *)
RECURSIVE FlatFrom(_, _)
FlatFrom(layout, r) ==
    IF r > Len(layout.runs) THEN <<>>
    ELSE [k \in 1..Len(layout.runs[r].glyphs) |->
             [run_ix |-> r - 1, glyph_ix |-> k - 1, glyph |-> layout.runs[r].glyphs[k]]]
         \o FlatFrom(layout, r + 1)

Flat == FlatFrom(A.layout, 1)

(* The number of maximal groups of adjacent decoration runs that carry the *)
(* same non-null underline style.                                          *)
StyleGroups(d) ==
    Cardinality({ i \in 1..Len(d) :
                    /\ d[i].underline # None
                    /\ (i = 1 \/ d[i - 1].underline # d[i].underline) })

(* The y of an underline opened on the first row. *)
FirstRowUnderlineY ==
    A.origin.y + ((A.line_height - A.layout.ascent - A.layout.descent) \div 2)
      + A.layout.ascent + (A.layout.descent * GoldenNum) \div GoldenDen

-----------------------------------------------------------------------------
(* C1: an unwrapped line whose decoration runs cover it, painted with      *)
(* success, gets exactly one paint_underline per maximal group of adjacent *)
(* decoration runs with the same non-null underline style, whatever the    *)
(* style (its own colour set or not), and none for runs without underline. *)
C1_OneUnderlinePerStyleGroup ==
    (Succeeded /\ A.wrap_boundaries = <<>> /\ CoversLine)
        => Len(Underlines) = StyleGroups(A.decoration_runs)

(* C2: one underlined decoration run over a line with one wrap boundary    *)
(* that has glyphs on both sides gets exactly two paint_underline calls:   *)
(* one ending at the boundary glyph's x before the reset, one starting at  *)
(* origin.x on the next row.                                               *)
C2_UnderlineOnBothRows ==
    (/\ Succeeded
     /\ Len(A.decoration_runs) = 1
     /\ A.decoration_runs[1].underline # None
     /\ CoversLine
     /\ Len(A.wrap_boundaries) = 1
     /\ A.wrap_boundaries[1] # [run_ix |-> 0, glyph_ix |-> 0])
        => LET b == CHOOSE k \in 1..Len(Flat) :
                        /\ Flat[k].run_ix = A.wrap_boundaries[1].run_ix
                        /\ Flat[k].glyph_ix = A.wrap_boundaries[1].glyph_ix
           IN  /\ Len(Underlines) = 2
               /\ Underlines[1].origin.x + Underlines[1].width
                     = A.origin.x + Flat[b].glyph.position.x
               /\ Underlines[1].g.row_end = 0
               /\ Underlines[2].origin.x = A.origin.x
               /\ Underlines[2].g.row_open = 1

(* C3: every paint_underline has its start and its end on the same visual  *)
(* row, and an underline that is open was opened on the current row: none  *)
(* stays open across the cursor reset of a wrap boundary.                  *)
C3_UnderlineWithinOneRow ==
    /\ \A i \in 1..Len(Underlines) :
          /\ Underlines[i].g.row_open = Underlines[i].g.row_end
    /\ st.current_underline # None
          => st.current_underline[1].g_row = st.g_row

(* C3's case: a paint that closed an underline at a wrap boundary and      *)
(* opened another on a later row.                                          *)
C3_Witness ==
    /\ Succeeded
    /\ \E i \in 1..Len(Underlines) : Underlines[i].g.pc = "wrap"
    /\ \E i \in 1..Len(Underlines) : Underlines[i].g.row_open >= 1

(* C4: an underline opened after r wrap boundaries lies r * line_height    *)
(* below an underline opened on the first row.                             *)
C4_UnderlineOnItsRow ==
    Succeeded =>
        \A i \in 1..Len(Underlines) :
            Underlines[i].origin.y
                = FirstRowUnderlineY + Underlines[i].g.row_open * A.line_height

-----------------------------------------------------------------------------
(* Where the inputs put the k-th glyph (in shaping order). *)

IsBoundary(k) ==
    \E i \in 1..Len(A.wrap_boundaries) :
        /\ A.wrap_boundaries[i].run_ix = Flat[k].run_ix
        /\ A.wrap_boundaries[i].glyph_ix = Flat[k].glyph_ix

(* The visual row of glyph k: the boundaries at or before it. *)
RowOf(k) == Cardinality({ j \in 1..k : IsBoundary(j) })

(* The boundary glyph that starts the row of glyph k; 0 on the first row. *)
RowStart(k) ==
    IF RowOf(k) = 0 THEN 0
    ELSE CHOOSE j \in 1..k : IsBoundary(j) /\ \A m \in (j + 1)..k : ~IsBoundary(m)

PosX(k) == Flat[k].glyph.position.x

(* The cursor at glyph k: on the first row the glyph's own offset from the *)
(* origin, on a later row its offset from the glyph that starts the row.   *)
CursorX(k) ==
    IF RowStart(k) = 0 THEN A.origin.x + PosX(k)
    ELSE A.origin.x + (PosX(k) - PosX(RowStart(k)))

CursorY(k) == A.origin.y + RowOf(k) * A.line_height

BaselineY ==
    ((A.line_height - A.layout.ascent - A.layout.descent) \div 2) + A.layout.ascent

(* The box that decides the culling of glyph k. *)
GlyphBox(k) ==
    [origin |-> point(CursorX(k), CursorY(k)),
     size   |-> BoundingBoxSize(A.layout.runs[Flat[k].run_ix + 1].font_id,
                                A.layout.font_size)]

GlyphCallsAt(k) ==
    SelectSeq(GlyphCalls, LAMBDA c : c.g.at = <<Flat[k].run_ix, Flat[k].glyph_ix>>)

(* C5: after a successful paint every glyph whose box (its cursor          *)
(* position, the font's max glyph size) intersects the content mask has    *)
(* exactly one paint_glyph or paint_emoji call, and every glyph whose box  *)
(* lies outside the mask has none.                                         *)
C5_OneCallPerVisibleGlyph ==
    /\ \A k \in 1..Len(Flat) : Len(GlyphCallsAt(k)) <= 1
    /\ Succeeded =>
          \A k \in 1..Len(Flat) :
              Len(GlyphCallsAt(k))
                  = IF Intersects(GlyphBox(k), cx.content_mask) THEN 1 ELSE 0

(* C5's case: a successful paint that culled a glyph and painted another. *)
C5_Witness ==
    /\ Succeeded
    /\ \E k \in 1..Len(Flat) : Intersects(GlyphBox(k), cx.content_mask)
    /\ \E k \in 1..Len(Flat) : ~Intersects(GlyphBox(k), cx.content_mask)
    /\ \E k \in 1..Len(Flat) : Len(GlyphCallsAt(k)) = 0

-----------------------------------------------------------------------------
WithOk(c) == [c EXCEPT !.ret = "Ok"]

(* The calls of the same paint against a context that never fails. *)
CleanCalls ==
    paint_line(A, [content_mask |-> cx.content_mask, calls |-> <<>>],
               paint_line_locals(A)).cx.calls

(* C6: a failed call is the last call paint makes: paint is over, returns  *)
(* that call's error, and no step is enabled any more; the calls made up   *)
(* to it are a prefix of the calls of the same paint with a context that   *)
(* never fails.                                                            *)
C6_FirstErrorAborts ==
    LET n     == Len(cx.calls)
        errs  == { i \in 1..n : cx.calls[i].ret = "Err" }
        clean == CleanCalls
    IN  /\ errs # {} =>
              /\ Failed
              /\ errs = {n}
              /\ st.result = Err([from |-> cx.calls[n].op, n |-> n])
        /\ Failed => errs # {}
        /\ Done => ~ENABLED Next
        /\ n <= Len(clean)
        /\ \A i \in 1..n : WithOk(cx.calls[i]) = clean[i]

(* C6's case: paint_glyph failed while an underline was open, and the      *)
(* underline was not emitted.                                              *)
C6_Witness ==
    /\ Failed
    /\ st.current_underline # None
    /\ cx.calls[Len(cx.calls)].op = "paint_glyph"
    /\ Len(cx.calls) < Len(CleanCalls)
    /\ Len(Underlines) = 0

-----------------------------------------------------------------------------
(* What C7 and C9 say of the glyph primitives of a successful paint under  *)
(* a mask that hides nothing: one per glyph, in shaping order, at (X(k),   *)
(* the baseline of row RowOf(k)), rows top to bottom and each row left to  *)
(* right; every wrap boundary consumed and one row advance for each.       *)
GlyphsPlacedAt(X(_)) ==
    /\ Len(GlyphCalls) = Len(Flat)
    /\ \A k \in 1..Len(Flat) :
          /\ GlyphCalls[k].g.at = <<Flat[k].run_ix, Flat[k].glyph_ix>>
          /\ GlyphCalls[k].glyph_id = Flat[k].glyph.id
          /\ GlyphCalls[k].origin = point(X(k), CursorY(k) + BaselineY)
    /\ \A k \in 2..Len(Flat) :
          \/ GlyphCalls[k - 1].origin.y < GlyphCalls[k].origin.y
          \/ /\ GlyphCalls[k - 1].origin.y = GlyphCalls[k].origin.y
             /\ GlyphCalls[k - 1].origin.x <= GlyphCalls[k].origin.x
    /\ st.wraps = Len(A.wrap_boundaries) + 1
    /\ st.g_row = Len(A.wrap_boundaries)

(* The x that C7 as written gives glyph k: origin.x for a boundary glyph,  *)
(* otherwise the offset from the first glyph of its row, the first row     *)
(* included.                                                               *)
ClaimedX(k) ==
    IF IsBoundary(k) THEN A.origin.x
    ELSE A.origin.x + (PosX(k) - PosX(IF RowStart(k) = 0 THEN 1 ELSE RowStart(k)))

(* C7 as written: every glyph that is no wrap boundary is placed at        *)
(* origin.x plus its offset from the first glyph of its row.               *)
C7_PlacedFromRowStart == Succeeded => GlyphsPlacedAt(ClaimedX)

(* C7, amended: glyph primitives come in shaping order, top to bottom and  *)
(* left to right; the k-th boundary glyph is at origin.x on row k; a glyph *)
(* of a later row is at origin.x plus its offset from the boundary glyph   *)
(* of its row; a glyph of the first row is at origin.x + position.x; every *)
(* boundary is consumed and the row advances equal the boundaries.         *)
C7_PlacedFromRowStartOrOrigin == Succeeded => GlyphsPlacedAt(CursorX)

(* C7's case: three glyphs, the first not at x = 0, a wrap at the second.  *)
C7_Witness ==
    /\ Succeeded
    /\ Len(Flat) >= 3
    /\ PosX(1) # 0
    /\ A.wrap_boundaries = <<[run_ix |-> 0, glyph_ix |-> 1]>>
    /\ Len(GlyphCalls) = Len(Flat)
    /\ GlyphCalls[3].origin.x > A.origin.x

-----------------------------------------------------------------------------
(* The x at which an underline open after the last glyph must end. *)
EffectiveEndX ==
    A.origin.x + (IF A.wrap_width = None THEN A.layout.width
                  ELSE Min(A.wrap_width[1], A.layout.width))

LastCall(calls) == calls[Len(calls)]

(* The step after the loops, taken with success while an underline is      *)
(* open, adds exactly one call: a paint_underline from the underline's     *)
(* anchor to the effective line end.                                       *)
ClosesOpenUnderline ==
    (st.pc = "end" /\ st.current_underline # None /\ st'.result = Ok)
        => /\ Len(cx'.calls) = Len(cx.calls) + 1
           /\ SubSeq(cx'.calls, 1, Len(cx.calls)) = cx.calls
           /\ LastCall(cx'.calls).op = "paint_underline"
           /\ LastCall(cx'.calls).origin = st.current_underline[1].origin
           /\ LastCall(cx'.calls).style = st.current_underline[1].style
           /\ LastCall(cx'.calls).origin.x + LastCall(cx'.calls).width = EffectiveEndX
           /\ st'.pc = "done"

(* One underlined decoration run over a whole line without wrap            *)
(* boundaries: one paint_underline, the last call of the paint, from the   *)
(* first glyph's x to the effective line end.                              *)
WholeLineUnderlined ==
    /\ Len(A.decoration_runs) = 1
    /\ A.decoration_runs[1].underline # None
    /\ CoversLine
    /\ A.wrap_boundaries = <<>>
    /\ Len(Flat) >= 1

OneUnderlineForWholeLine ==
    (Succeeded /\ WholeLineUnderlined)
        => /\ Len(Underlines) = 1
           /\ LastCall(cx.calls) = Underlines[1]
           /\ Underlines[1].origin.x = A.origin.x + PosX(1)
           /\ Underlines[1].origin.x + Underlines[1].width = EffectiveEndX

(* C8: an underline still open after the last glyph is emitted exactly     *)
(* once, after every glyph primitive, from its anchor to origin.x +        *)
(* min(wrap_width or +infinity, layout.width); one underlined run over an  *)
(* unwrapped line gives exactly one paint_underline from the first glyph's *)
(* x to that end.                                                          *)
C8_OpenUnderlineEndsAtLineEnd ==
    [](OneUnderlineForWholeLine) /\ [][ClosesOpenUnderline]_vars

(* C8's case: a whole-line underline on a line of several glyphs whose     *)
(* wrap width is less than its width.                                      *)
C8_Witness ==
    /\ Succeeded
    /\ WholeLineUnderlined
    /\ Len(Flat) >= 2
    /\ A.wrap_width # None
    /\ A.wrap_width[1] < A.layout.width
    /\ LastCall(cx.calls).op = "paint_underline"
    /\ LastCall(cx.calls).g.pc = "end"

-----------------------------------------------------------------------------
NoUnderlineRuns ==
    \A i \in 1..Len(A.decoration_runs) : A.decoration_runs[i].underline = None

(* C9: ShapedLine::paint of a line of N glyphs without underline, none of  *)
(* them culled, makes N glyph-primitive calls and no paint_underline, in   *)
(* shaping order, the k-th at x = origin.x + glyph_k.position.x and all at *)
(* y = origin.y + (line_height - ascent - descent)/2 + ascent.             *)
C9_UnwrappedGlyphsAtTheirOffsets ==
    (Succeeded /\ req.kind = "shaped" /\ NoUnderlineRuns)
        => /\ Len(GlyphCalls) = Len(Flat)
           /\ Len(Underlines) = 0
           /\ \A k \in 1..Len(Flat) :
                 /\ GlyphCalls[k].g.at = <<Flat[k].run_ix, Flat[k].glyph_ix>>
                 /\ GlyphCalls[k].glyph_id = Flat[k].glyph.id
                 /\ GlyphCalls[k].origin.x = req.origin.x + PosX(k)
                 /\ GlyphCalls[k].origin.y
                       = req.origin.y
                         + ((req.line_height - A.layout.ascent - A.layout.descent) \div 2)
                         + A.layout.ascent

(* C9's case: three glyphs in two runs, the first not at x = 0. *)
C9_Witness ==
    /\ Succeeded
    /\ req.kind = "shaped"
    /\ NoUnderlineRuns
    /\ Len(A.decoration_runs) >= 1
    /\ Len(A.layout.runs) = 2
    /\ Len(Flat) >= 3
    /\ PosX(1) # 0
    /\ Len(GlyphCalls) = Len(Flat)

-----------------------------------------------------------------------------
(* The request with every is_emoji flag cleared. *)
WithoutEmoji(layout) ==
    [layout EXCEPT !.runs =
        [r \in DOMAIN layout.runs |->
            [layout.runs[r] EXCEPT !.glyphs =
                [k \in DOMAIN layout.runs[r].glyphs |->
                    [layout.runs[r].glyphs[k] EXCEPT !.is_emoji = FALSE]]]]]

PlainArgs == [A EXCEPT !.layout = WithoutEmoji(A.layout)]

PlainPaint ==
    paint_line(PlainArgs, [content_mask |-> cx.content_mask, calls |-> <<>>],
               paint_line_locals(PlainArgs))

GlyphAt(at) == A.layout.runs[at[1] + 1].glyphs[at[2] + 1]

(* A glyph primitive without what tells paint_emoji from paint_glyph. *)
Placed(c) == [origin |-> c.origin, font_id |-> c.font_id, glyph_id |-> c.glyph_id,
              font_size |-> c.font_size, g |-> c.g]

(* C10: a glyph primitive is a paint_emoji exactly if its glyph is an      *)
(* emoji and a paint_glyph exactly if it is not; and a successful paint    *)
(* ends in the same state, with the same underlines and the same glyph     *)
(* placements, as the paint of the same line with no glyph flagged emoji.  *)
C10_EmojiOnlySelectsThePrimitive ==
    /\ \A i \in 1..Len(GlyphCalls) :
          /\ GlyphAt(GlyphCalls[i].g.at).is_emoji => GlyphCalls[i].op = "paint_emoji"
          /\ ~GlyphAt(GlyphCalls[i].g.at).is_emoji => GlyphCalls[i].op = "paint_glyph"
    /\ Succeeded =>
          LET plain == PlainPaint
              plainGlyphs == CallsOf(plain.cx.calls, {"paint_glyph", "paint_emoji"})
          IN  /\ plain.st = st
              /\ CallsOf(plain.cx.calls, {"paint_underline"}) = Underlines
              /\ Len(plainGlyphs) = Len(GlyphCalls)
              /\ \A i \in 1..Len(GlyphCalls) :
                    Placed(plainGlyphs[i]) = Placed(GlyphCalls[i])

(* C10's case: a successful paint with an emoji, a plain glyph, a wrap and *)
(* an underline.                                                           *)
C10_Witness ==
    /\ Succeeded
    /\ \E i \in 1..Len(GlyphCalls) : GlyphCalls[i].op = "paint_emoji"
    /\ \E i \in 1..Len(GlyphCalls) : GlyphCalls[i].op = "paint_glyph"
    /\ Len(Underlines) >= 1
    /\ st.g_row >= 1

-----------------------------------------------------------------------------
(* The place in shaping order of the glyph a call was made at. *)
FlatPos(at) ==
    CHOOSE k \in 1..Len(Flat) : Flat[k].run_ix = at[1] /\ Flat[k].glyph_ix = at[2]

(* The characters the decoration runs cover, and the first glyph beyond    *)
(* them (0 if there is none).                                              *)
Covered == SumLens(A.decoration_runs)

FirstUncovered ==
    IF \E k \in 1..Len(Flat) : Flat[k].glyph.index >= Covered
    THEN CHOOSE k \in 1..Len(Flat) :
            /\ Flat[k].glyph.index >= Covered
            /\ \A j \in 1..(k - 1) : Flat[j].glyph.index < Covered
    ELSE 0

(* The paint_underline calls made at the first uncovered glyph, at a later *)
(* glyph or after the loops.                                               *)
LateUnderlines ==
    SelectSeq(Underlines,
              LAMBDA c : c.g.pc = "end" \/ FlatPos(c.g.at) >= FirstUncovered)

RunsFallShort == Covered < A.layout.len /\ FirstUncovered > 0

LastRunUnderlined ==
    /\ A.decoration_runs # <<>>
    /\ A.decoration_runs[Len(A.decoration_runs)].underline # None

(* C12: when the decoration runs cover fewer characters than the line has, *)
(* the underline open at the first uncovered glyph is emitted exactly once *)
(* there, ending at that glyph's x; no paint_underline is made at a later  *)
(* glyph or after the loops; without decoration runs there is none at all. *)
C12_ExhaustedRunsCloseUnderline ==
    (RunsFallShort /\ A.wrap_boundaries = <<>>)
        => /\ Len(LateUnderlines) <= 1
           /\ \A i \in 1..Len(LateUnderlines) :
                 /\ LateUnderlines[i].g.pc = "deco"
                 /\ FlatPos(LateUnderlines[i].g.at) = FirstUncovered
                 /\ LateUnderlines[i].origin.x + LateUnderlines[i].width
                       = A.origin.x + PosX(FirstUncovered)
           /\ A.decoration_runs = <<>> => Len(Underlines) = 0
           /\ Succeeded =>
                 Len(LateUnderlines) = (IF LastRunUnderlined THEN 1 ELSE 0)

(* C12's case: an underlined last run that ends before the line does, with *)
(* a glyph after the first uncovered one.                                  *)
C12_Witness ==
    /\ Succeeded
    /\ RunsFallShort
    /\ LastRunUnderlined
    /\ FirstUncovered < Len(Flat)
    /\ Len(LateUnderlines) = 1

-----------------------------------------------------------------------------
(* C13: when the decoration runs cover fewer characters than the line has, *)
(* every paint_glyph of a glyph beyond the covered characters carries the  *)
(* default colour, black.                                                  *)
C13_RemainderPaintedBlack ==
    Covered < A.layout.len
        => \A i \in 1..Len(GlyphCalls) :
              (/\ GlyphCalls[i].op = "paint_glyph"
               /\ GlyphAt(GlyphCalls[i].g.at).index >= Covered)
                  => GlyphCalls[i].color = black

-----------------------------------------------------------------------------
(* The decoration run (counted from 1) whose character range contains      *)
(* character index ix.                                                     *)
RECURSIVE RunStart(_, _)
RunStart(d, r) == IF r = 1 THEN 0 ELSE RunStart(d, r - 1) + d[r - 1].len

CoveringRun(ix) ==
    CHOOSE r \in 1..Len(A.decoration_runs) :
        /\ RunStart(A.decoration_runs, r) <= ix
        /\ ix < RunStart(A.decoration_runs, r) + A.decoration_runs[r].len

(* C15: on a line whose glyph indices increase strictly and whose          *)
(* decoration runs cover it, the run that is active once a glyph's         *)
(* decoration step is done is the run whose characters contain the glyph's *)
(* index, and paint_glyph gets that run's colour.                          *)
C15_ActiveRunCoversGlyph ==
    (CoversLine /\ A.decoration_runs # <<>>)
        => /\ st.pc = "glyph"
                => st.decoration_runs - 1
                     = CoveringRun(GlyphAt(<<st.run_ix, st.glyph_ix>>).index)
           /\ \A i \in 1..Len(GlyphCalls) :
                 GlyphCalls[i].op = "paint_glyph"
                    => GlyphCalls[i].color
                         = A.decoration_runs[
                              CoveringRun(GlyphAt(GlyphCalls[i].g.at).index)].color

-----------------------------------------------------------------------------
(* The glyph the loops are at, by its place in shaping order. *)
HereK == FlatPos(<<st.run_ix, st.glyph_ix>>)

StartsRun(ix) ==
    \E r \in 2..Len(A.decoration_runs) : RunStart(A.decoration_runs, r) = ix

(* The loops are at a glyph that is a wrap boundary and the first glyph of *)
(* a decoration run.                                                       *)
AtWrapAndRunStart ==
    /\ st.pc \in {"wrap", "deco"}
    /\ IsBoundary(HereK)
    /\ StartsRun(Flat[HereK].glyph.index)

(* The x of glyph k on the row of its predecessor, before any reset. *)
PreResetX(k) ==
    IF RowStart(k - 1) = 0 THEN A.origin.x + PosX(k)
    ELSE A.origin.x + (PosX(k) - PosX(RowStart(k - 1)))

(* The wrap step at such a glyph: the open underline, if any, is emitted   *)
(* with its end at the glyph's x before the reset, and with success the    *)
(* cursor goes to the left edge one row down with no underline open.       *)
WrapComesFirst ==
    (st.pc = "wrap" /\ AtWrapAndRunStart)
        => /\ IF st.current_underline # None
              THEN /\ Len(cx'.calls) = Len(cx.calls) + 1
                   /\ SubSeq(cx'.calls, 1, Len(cx.calls)) = cx.calls
                   /\ LastCall(cx'.calls).op = "paint_underline"
                   /\ LastCall(cx'.calls).origin = st.current_underline[1].origin
                   /\ LastCall(cx'.calls).origin.x + LastCall(cx'.calls).width
                         = PreResetX(HereK)
              ELSE cx'.calls = cx.calls
           /\ st'.pc # "done"
                 => /\ st'.pc = "deco"
                    /\ st'.glyph_origin
                          = point(A.origin.x, st.glyph_origin.y + A.line_height)
                    /\ st'.current_underline = None
                    /\ st'.decoration_runs = st.decoration_runs

(* The decoration step that follows: no call, the next run becomes active  *)
(* and its underline, if it has one, is anchored at the left edge.         *)
RunTransitionComesSecond ==
    (st.pc = "deco" /\ AtWrapAndRunStart)
        => /\ cx'.calls = cx.calls
           /\ st'.pc = "glyph"
           /\ st'.decoration_runs = st.decoration_runs + 1
           /\ st'.glyph_origin = st.glyph_origin
           /\ IF A.decoration_runs[st.decoration_runs].underline # None
              THEN /\ st'.current_underline # None
                   /\ st'.current_underline[1].origin.x = A.origin.x
              ELSE st'.current_underline = None

OneUnderlinePerGlyph ==
    \A k \in 1..Len(Flat) :
        Len(SelectSeq(Underlines,
                      LAMBDA c : c.g.pc # "end"
                                 /\ c.g.at = <<Flat[k].run_ix, Flat[k].glyph_ix>>)) <= 1

(* C16: at a glyph that is the next wrap boundary and the first glyph of a *)
(* decoration run the wrap is processed first (the open underline emitted  *)
(* once, measured to the glyph's x before the reset, the cursor moved to   *)
(* the left edge one row down), then the run transition (a new underline   *)
(* anchored at origin.x), with no second paint_underline for the glyph.    *)
C16_WrapBeforeRunTransition ==
    /\ [](CoversLine => OneUnderlinePerGlyph)
    /\ [][CoversLine => (WrapComesFirst /\ RunTransitionComesSecond)]_vars

(* C16's case: an underline closed by the wrap at a glyph that starts an   *)
(* underlined run, whose underline is emitted later from the left edge of  *)
(* the next row.                                                           *)
C16_Witness ==
    /\ Succeeded
    /\ \E i \in 1..Len(Underlines) : \E j \in (i + 1)..Len(Underlines) :
          /\ Underlines[i].g.pc = "wrap"
          /\ IsBoundary(FlatPos(Underlines[i].g.at))
          /\ StartsRun(GlyphAt(Underlines[i].g.at).index)
          /\ Underlines[j].origin.x = A.origin.x
          /\ Underlines[j].g.row_open = Underlines[i].g.row_end + 1
          /\ Underlines[i].origin.x + Underlines[i].width > A.origin.x

-----------------------------------------------------------------------------
(* The paint_underline calls made by the step named pc. *)
UnderlinesFrom(pc) == SelectSeq(Underlines, LAMBDA c : c.g.pc = pc)

(* A decoration step emits only at a glyph that starts a decoration run or *)
(* is the first one beyond the runs.                                       *)
EmittedAtRunBoundary(c) ==
    \/ c.g.pc \in {"wrap", "end"}
    \/ /\ c.g.pc = "deco"
       /\ \/ StartsRun(GlyphAt(c.g.at).index)
          \/ FlatPos(c.g.at) = FirstUncovered

-----------------------------------------------------------------------------
WrapWidthFits ==
    \/ A.wrap_width = None
    \/ \A k \in 1..Len(Flat) : CursorX(k) - A.origin.x <= A.wrap_width[1]

-----------------------------------------------------------------------------
(* The same paint with nothing culled. *)
UnculledPaint ==
    paint_line(A, [content_mask |-> MaskAll, calls |-> <<>>], paint_line_locals(A))

(* C20: the paint_underline calls of a successful paint (origin, width and *)
(* style of each, in order) and the locals it ends with are those of the   *)
(* paint of the same line under a content mask that culls nothing: a       *)
(* culled glyph only lacks its paint_glyph or paint_emoji call.            *)
C20_UnderlinesIgnoreContentMask ==
    Succeeded =>
        LET full == UnculledPaint
            fullGlyphs == CallsOf(full.cx.calls, {"paint_glyph", "paint_emoji"})
        IN  /\ Underlines = CallsOf(full.cx.calls, {"paint_underline"})
            /\ st = full.st
            /\ \A i \in 1..Len(GlyphCalls) :
                  \E j \in 1..Len(fullGlyphs) : GlyphCalls[i] = fullGlyphs[j]

(* C20's case: a successful paint over two rows that culled a glyph and    *)
(* made two paint_underline calls.                                         *)
C20_Witness ==
    /\ Succeeded
    /\ cx.content_mask # MaskAll
    /\ Len(GlyphCalls) < Len(Flat)
    /\ Len(Underlines) >= 2
    /\ st.g_row >= 1

-----------------------------------------------------------------------------
IsPrefix(p, q) == Len(p) <= Len(q) /\ SubSeq(q, 1, Len(p)) = p

AllOk(calls) == \A i \in 1..Len(calls) : calls[i].ret = "Ok"

-----------------------------------------------------------------------------
(* The calls invocation p makes when it runs alone and no call fails. *)
AloneCalls(p) ==
    paint_line(A, [content_mask |-> cx[p].content_mask, calls |-> <<>>],
               paint_line_locals(A)).cx.calls

(* Invocation p has so far made the calls it makes alone. *)
PaintsAsAlone(p) ==
    LET alone == AloneCalls(p)
    IN  /\ AllOk(cx[p].calls) => IsPrefix(cx[p].calls, alone)
        /\ (st[p].pc = "done" /\ st[p].result = Ok) => cx[p].calls = alone

-----------------------------------------------------------------------------
(* A step in which a mouse-down event opens a menu. *)
MenuOpens ==
    /\ cx.stage = "idle"
    /\ st'.menu # None
    /\ st'.menu # st.menu

(* The step that opens a menu was a right-button mouse-down inside the     *)
(* handle, and the position it stores is the attach corner of the child's  *)
(* layout bounds if the handle has an attach corner and a child, and the   *)
(* mouse position otherwise, whatever the anchor.                          *)
StoresAttachCornerOrMouse ==
    MenuOpens
        => /\ ContainsPoint(HandleBounds, cx'.mouse_position)
           /\ st'.position
                = IF req.attach # None /\ req.child_builder # None
                  THEN Corner(req.attach[1], ChildBounds)
                  ELSE cx'.mouse_position

(* The overlay of an open menu is laid out at the stored position, with    *)
(* the anchor corner of the handle (by default the overlay's own).         *)
OverlayAnchoredAtPosition ==
    st.menu_element # None
        => /\ st.menu_element[1].anchor_position = st.position
           /\ st.menu_element[1].anchor_corner
                = IF req.anchor # None THEN req.anchor[1] ELSE overlay.anchor_corner

-----------------------------------------------------------------------------
(* On an unwrapped line, the decoration run that opened the underline of   *)
(* call c: the run of the glyph at whose x the underline starts.           *)
OpeningGlyph(c) ==
    CHOOSE k \in 1..Len(Flat) : A.origin.x + PosX(k) = c.origin.x

OpeningRun(c) ==
    A.decoration_runs[CoveringRun(Flat[OpeningGlyph(c)].glyph.index)]

(* An underline that extends over a run other than the one that opened it. *)
ExtendsOverLaterRun(c) ==
    /\ c.g.pc = "end"
    /\ CoveringRun(Flat[OpeningGlyph(c)].glyph.index) < Len(A.decoration_runs)

(* C21: every paint_underline carries a concrete colour, the underline     *)
(* colour of the decoration run that opened it if that is set and the      *)
(* run's text colour otherwise, and the thickness and wavy flag of that    *)
(* run, also when later runs extend the underline.                         *)
C21_UnderlineStyleOfOpeningRun ==
    A.wrap_boundaries = <<>> =>
        \A i \in 1..Len(Underlines) :
            LET run == OpeningRun(Underlines[i])
            IN  /\ run.underline # None
                /\ Underlines[i].style.color # None
                /\ Underlines[i].style.color[1]
                      = IF run.underline[1].color # None
                        THEN run.underline[1].color[1] ELSE run.color
                /\ Underlines[i].style.thickness = run.underline[1].thickness
                /\ Underlines[i].style.wavy = run.underline[1].wavy

(* C21's case: an underline in its own colour that a run of another text   *)
(* colour extended to the end of the line, after an underline in the text  *)
(* colour of its run.                                                      *)
C21_Witness ==
    /\ Succeeded
    /\ CoversLine
    /\ Len(Underlines) = 2
    /\ OpeningRun(Underlines[1]).underline[1].color = None
    /\ Underlines[1].style.color = Some(OpeningRun(Underlines[1]).color)
    /\ ExtendsOverLaterRun(Underlines[2])
    /\ Underlines[2].style.color = Some("green")
    /\ A.decoration_runs[Len(A.decoration_runs)].color
          # OpeningRun(Underlines[2]).color

-----------------------------------------------------------------------------
(* A menu comes to be held, and a held menu is let go. *)
MenuBecomesHeld == st'.menu # None /\ st'.menu # st.menu

MenuIsCleared == st.menu # None /\ st'.menu = None

(* A menu comes to be held only in the dispatch of a right-button          *)
(* mouse-down inside the handle's bounds in the bubble phase, to a handle  *)
(* with a menu builder; the step builds one view and stops propagation.    *)
HeldOnlyByRightMouseDown ==
    MenuBecomesHeld
        => /\ cx.stage = "idle"
           /\ req.menu_builder # None
           /\ cx'.g_event # None
           /\ cx'.g_event[1].button = "Right"
           /\ cx'.g_event[1].phase = "Bubble"
           /\ ContainsPoint(HandleBounds, cx'.g_event[1].position)
           /\ cx'.views = cx.views + 1
           /\ st'.menu[1].n = cx'.views
           /\ cx'.propagate = FALSE
           /\ cx'.default_prevented
           /\ cx'.notified

(* A Dismiss of the held menu clears it and asks for a frame, and nothing  *)
(* else lets a held menu go.                                               *)
DismissClears ==
    /\ MenuDismissed => (st'.menu = None /\ cx'.notified)
    /\ MenuIsCleared => (MenuDismissed /\ cx'.views = cx.views)

(* While the menu that a frame laid out is open no step builds a menu. *)
NoMenuBuiltWhileOpen ==
    st.menu_element # None => (cx'.views = cx.views /\ ~MenuBecomesHeld)

(* Every layout calls the child builder, if there is one, with is_open     *)
(* equal to whether a menu is held, and keeps the held menu.               *)
ChildToldWhetherOpen ==
    Layout => /\ st'.menu = st.menu
              /\ st'.child_element
                    = IF req.child_builder # None
                      THEN Some([child |-> req.child_builder[1],
                                 is_open |-> st.menu # None])
                      ELSE None

(* A frame that has a menu element has no mouse handler; a frame without   *)
(* one has the handler of a handle with a menu builder once it is painted. *)
HandlerOnlyWhileClosed ==
    /\ st.menu_element # None => cx.mouse_handlers = <<>>
    /\ (cx.stage = "idle" /\ st.menu_element = None /\ req.menu_builder # None)
          => Len(cx.mouse_handlers) = 1
    /\ cx.views = 0 => st.menu = None

-----------------------------------------------------------------------------
(* ContextMenu (context_menu.rs).  req is the menu the builder chain made, *)
(* st the owning view behind the menu's weak handle, cx the menu's view    *)
(* context: the events it emitted and what the last handler did.           *)

MaxItems == 3
MaxEvents == 2

Dismiss == "Dismiss"

ContextMenu_build(view) == [items |-> <<>>, handle |-> view]

ContextMenu_header(self, title) ==
    [self EXCEPT !.items = Append(@, [kind |-> "Header", label |-> title,
                                      on_click |-> None])]

ContextMenu_separator(self) ==
    [self EXCEPT !.items = Append(@, [kind |-> "Separator", label |-> "",
                                      on_click |-> None])]

ContextMenu_entry(self, view, on_click) ==
    [self EXCEPT !.items = Append(@, [kind |-> "Entry", label |-> view,
                                      on_click |-> Some(on_click)])]

(* An action entry is an entry whose callback dispatches the action. *)
ContextMenu_action(self, view, action) ==
    ContextMenu_entry(self, view, [calls |-> "dispatch_action", with |-> action])

(* cx.emit: the event is queued, and the handler's trace notes it. *)
emit(c, event) ==
    [c EXCEPT !.events = Append(@, event),
              !.g_trace = Append(@, [op |-> "emit", what |-> event])]

(* WeakView::update: the closure runs on the view if it is still alive,    *)
(* and the call fails if the view was dropped.                             *)
WeakView_update(handle, view, c, callback) ==
    IF view.alive
    THEN [result |-> Ok,
          st |-> [view EXCEPT !.received = Append(@, callback)],
          cx |-> [c EXCEPT !.g_trace = Append(@, [op |-> "callback",
                                                  what |-> callback])]]
    ELSE [result |-> Err(handle), st |-> view, cx |-> c]

(* A click handler that gives up when the update failed. *)
FailedUpdateReturns(r) ==
    IF r.result = Ok
    THEN [st |-> r.st, cx |-> emit(r.cx, Dismiss)]
    ELSE [st |-> r.st, cx |-> r.cx]

(* `.ok();` drops the update's result, and the handler emits Dismiss. *)
AfterUpdate(r) == [st |-> r.st, cx |-> emit(r.cx, Dismiss)]

ContextMenu_on_click(handler, view, c) ==
    AfterUpdate(WeakView_update(handler.handle, view, c, handler.callback))

ContextMenu_confirm(view, c) == [st |-> view, cx |-> emit(c, Dismiss)]

ContextMenu_cancel(view, c) == [st |-> view, cx |-> emit(c, Dismiss)]

(* render: one list item per menu item; an entry's click handler owns a    *)
(* clone of the callback and of the weak handle.                           *)
ContextMenu_render(self) ==
    [i \in 1..Len(self.items) |->
        IF self.items[i].kind = "Entry"
        THEN [kind |-> "Entry",
              on_click |-> Some([callback |-> self.items[i].on_click[1],
                                 handle |-> self.handle])]
        ELSE [kind |-> self.items[i].kind, on_click |-> None]]

Callbacks == {[calls |-> "on_click", with |-> "view"]}
MenuActions == {"menu_action"}

(* The menus that n builder calls make. *)
RECURSIVE ContextMenus(_)
ContextMenus(n) ==
    IF n = 0 THEN {ContextMenu_build("owner")}
    ELSE LET shorter == ContextMenus(n - 1)
         IN  {ContextMenu_header(m, "header") : m \in shorter}
             \cup {ContextMenu_separator(m) : m \in shorter}
             \cup {ContextMenu_entry(m, "entry", f) :
                      m \in shorter, f \in Callbacks}
             \cup {ContextMenu_action(m, "entry", a) :
                      m \in shorter, a \in MenuActions}

(* A handler starts with an empty trace; g_op names the handler. *)
Handling(op, item) == [cx EXCEPT !.g_op = [op |-> op, item |-> item],
                                 !.g_trace = <<>>]

ClickEntry ==
    /\ Len(cx.events) < MaxEvents
    /\ \E i \in 1..Len(req.items) :
          /\ ContextMenu_render(req)[i].on_click # None
          /\ LET r == ContextMenu_on_click(ContextMenu_render(req)[i].on_click[1],
                                           st, Handling("click", i))
             IN  st' = r.st /\ cx' = r.cx
    /\ UNCHANGED req

Confirm ==
    /\ Len(cx.events) < MaxEvents
    /\ LET r == ContextMenu_confirm(st, Handling("confirm", 0))
       IN  st' = r.st /\ cx' = r.cx
    /\ UNCHANGED req

Cancel ==
    /\ Len(cx.events) < MaxEvents
    /\ LET r == ContextMenu_cancel(st, Handling("cancel", 0))
       IN  st' = r.st /\ cx' = r.cx
    /\ UNCHANGED req

MouseDownOut ==
    /\ Len(cx.events) < MaxEvents
    /\ LET r == ContextMenu_cancel(st, Handling("mouse_down_out", 0))
       IN  st' = r.st /\ cx' = r.cx
    /\ UNCHANGED req

(* The owning view is dropped: the menu's handle is weak. *)
DropOwner ==
    /\ st.alive
    /\ st' = [st EXCEPT !.alive = FALSE]
    /\ UNCHANGED <<req, cx>>

NextContextMenu == ClickEntry \/ Confirm \/ Cancel \/ MouseDownOut \/ DropOwner

InitContextMenu ==
    /\ \E n \in 0..MaxItems : req \in ContextMenus(n)
    /\ st = [alive |-> TRUE, received |-> <<>>]
    /\ cx = [events |-> <<>>, g_op |-> [op |-> "build", item |-> 0],
             g_trace |-> <<>>]
SpecContextMenu == InitContextMenu /\ [][NextContextMenu]_vars

(* A handler of the menu ran in the step. *)
HandlerRan == cx'.events # cx.events \/ cx'.g_op # cx.g_op

ClickRan == HandlerRan /\ cx'.g_op.op = "click"

ClickedCallback == req.items[cx'.g_op.item].on_click[1]

(* A click on an entry of a live owner runs the entry's callback once on   *)
(* the owner and then emits Dismiss; with the owner dropped it runs no     *)
(* callback and emits Dismiss.                                             *)
ClickCallsOnceThenDismisses ==
    ClickRan
        => /\ req.items[cx'.g_op.item].kind = "Entry"
           /\ cx'.events = Append(cx.events, Dismiss)
           /\ IF st.alive
              THEN /\ st'.received = Append(st.received, ClickedCallback)
                   /\ cx'.g_trace = <<[op |-> "callback", what |-> ClickedCallback],
                                      [op |-> "emit", what |-> Dismiss]>>
              ELSE /\ st' = st
                   /\ cx'.g_trace = <<[op |-> "emit", what |-> Dismiss]>>

(* confirm and cancel emit Dismiss and run no callback. *)
ConfirmAndCancelOnlyDismiss ==
    (HandlerRan /\ cx'.g_op.op \in {"confirm", "cancel", "mouse_down_out"})
        => /\ cx'.events = Append(cx.events, Dismiss)
           /\ st' = st
           /\ cx'.g_trace = <<[op |-> "emit", what |-> Dismiss]>>

(* C23: a click on a ContextMenu entry runs that entry's callback on the   *)
(* owning view at most once and then always emits Dismiss, also when the   *)
(* owning view was dropped and the callback cannot run; confirm and cancel *)
(* each emit Dismiss and run no entry callback.                            *)
C23_ClickAlwaysDismisses ==
    /\ [](Len(st.received) <= Len(cx.events))
    /\ [][ClickCallsOnceThenDismisses /\ ConfirmAndCancelOnlyDismiss]_vars

(* C23's case: an entry was clicked and its callback ran, the owner was    *)
(* dropped, and an entry was clicked again.                                *)
C23_Witness ==
    /\ ~st.alive
    /\ Len(st.received) = 1
    /\ cx.g_op.op = "click"
    /\ cx.events = <<Dismiss, Dismiss>>
    /\ cx.g_trace = <<[op |-> "emit", what |-> Dismiss]>>

-----------------------------------------------------------------------------
(* MacDispatcher (dispatcher.rs).  req names the dispatcher the threads    *)
(* share, cx is its Mutex<Parker>, st gives each thread its position and   *)
(* whether it keeps an Unparker.                                           *)

MaxThreads == 3

Threads == 1..MaxThreads

MacDispatcher_new == [parker |-> [locked_by |-> None, notified |-> FALSE]]

(* parking_lot::Mutex: lock() waits until no guard is alive. *)
Mutex_is_free(d) == d.parker.locked_by = None

Mutex_lock(d, t) == [d EXCEPT !.parker.locked_by = Some(t)]

Mutex_unlock(d) == [d EXCEPT !.parker.locked_by = None]

(* parking::Parker: park() waits for the token and takes it; unpark() of   *)
(* an Unparker of the parker puts the token.                               *)
Parker_is_notified(d) == d.parker.notified

Parker_park(d) == [d EXCEPT !.parker.notified = FALSE]

Unparker_unpark(d) == [d EXCEPT !.parker.notified = TRUE]

(* park(): the guard that lock() returns lives until park() returns. *)
MacDispatcher_park_lock(d, t) == Mutex_lock(d, t)

MacDispatcher_park_return(d) == Mutex_unlock(Parker_park(d))

(* unparker(): lock, make an Unparker of the parker, drop the guard. *)
MacDispatcher_unparker(d, t) == Mutex_unlock(Mutex_lock(d, t))

(* A thread calls park() and comes to self.parker.lock(). *)
CallPark ==
    /\ \E t \in Threads :
          /\ st[t].pc = "idle"
          /\ st' = [st EXCEPT ![t].pc = "park_lock"]
    /\ UNCHANGED <<req, cx>>

(* lock() in park() returns the guard, and the thread enters Parker::park. *)
ParkLock ==
    /\ \E t \in Threads :
          /\ st[t].pc = "park_lock"
          /\ Mutex_is_free(cx)
          /\ cx' = MacDispatcher_park_lock(cx, t)
          /\ st' = [st EXCEPT ![t].pc = "parked"]
    /\ UNCHANGED req

(* Parker::park finds the token, and park() returns and drops the guard. *)
ParkReturn ==
    /\ \E t \in Threads :
          /\ st[t].pc = "parked"
          /\ Parker_is_notified(cx)
          /\ cx' = MacDispatcher_park_return(cx)
          /\ st' = [st EXCEPT ![t].pc = "idle"]
    /\ UNCHANGED req

(* A thread calls unparker() and comes to self.parker.lock(). *)
CallUnparker ==
    /\ \E t \in Threads :
          /\ st[t].pc = "idle"
          /\ st' = [st EXCEPT ![t].pc = "unparker",
                              ![t].g_parked = {p \in Threads : st[p].pc = "parked"}]
    /\ UNCHANGED <<req, cx>>

(* lock() in unparker() returns the guard, and unparker() returns the      *)
(* Unparker, which the thread is about to use.                             *)
UnparkerReturn ==
    /\ \E t \in Threads :
          /\ st[t].pc = "unparker"
          /\ Mutex_is_free(cx)
          /\ cx' = MacDispatcher_unparker(cx, t)
          /\ st' = [st EXCEPT ![t].pc = "unpark", ![t].unparker = TRUE]
    /\ UNCHANGED req

(* The thread unparks with the Unparker it got. *)
Unpark ==
    /\ \E t \in Threads :
          /\ st[t].pc = "unpark"
          /\ cx' = Unparker_unpark(cx)
          /\ st' = [st EXCEPT ![t].pc = "idle", ![t].g_parked = {}]
    /\ UNCHANGED req

(* A thread unparks with an Unparker it got earlier and kept. *)
UnparkAgain ==
    /\ \E t \in Threads :
          /\ st[t].pc = "idle"
          /\ st[t].unparker
          /\ cx' = Unparker_unpark(cx)
          /\ UNCHANGED st
    /\ UNCHANGED req

NextDispatcher ==
    \/ CallPark \/ ParkLock \/ ParkReturn
    \/ CallUnparker \/ UnparkerReturn \/ Unpark \/ UnparkAgain

InitDispatcher ==
    /\ req = [dispatcher |-> "MacDispatcher", threads |-> Threads]
    /\ cx = MacDispatcher_new
    /\ st = [t \in Threads |->
                [pc |-> "idle", unparker |-> FALSE,
                 g_parked |-> {}]]   \* the threads parked when t called unparker()

(* A thread inside a call goes on if it can again and again: the step of   *)
(* thread t that takes it out of a position inside park(), unparker() or   *)
(* unpark().  The mutex hands the guard to every waiter in the end, so a   *)
(* thread does not wait at lock() for ever while the guard keeps coming    *)
(* free.                                                                   *)
Progress(t) ==
    /\ NextDispatcher
    /\ st[t].pc # "idle"
    /\ st'[t].pc # st[t].pc

SpecDispatcher ==
    /\ InitDispatcher
    /\ [][NextDispatcher]_vars
    /\ \A t \in Threads : SF_vars(Progress(t))

(* Thread p is blocked inside park(), and thread u called unparker() when  *)
(* p was blocked there and is inside the call.                             *)
ParkedAndUnparking(p, u) ==
    p # u /\ st[p].pc = "parked" /\ st[u].pc = "unparker" /\ p \in st[u].g_parked

(* C24: whenever a thread is blocked inside park() and another thread      *)
(* calls unparker() on the dispatcher to unpark with the result, the call  *)
(* to unparker() returns and the parked thread resumes in the end.         *)
C24_UnparkerReturnsAndParkedResumes ==
    \A p \in Threads : \A u \in Threads :
        /\ ParkedAndUnparking(p, u) ~> (st[u].pc # "unparker")
        /\ ParkedAndUnparking(p, u) ~> (st[p].pc # "parked")

(* A thread is parked with the guard and without a token while every      *)
(* other thread waits for the guard: no step is possible.                  *)
AllBlocked ==
    \E p \in Threads :
         /\ st[p].pc = "parked"
         /\ ~Parker_is_notified(cx)
         /\ \A u \in Threads \ {p} : st[u].pc \in {"unparker", "park_lock"}

=============================================================================
